---- MODULE Spec2Model ----
(***************************************************************************)
(* Model of picomc's curse modpack installer (src/picomc/mod/curse.py):    *)
(* install_from_path -> resolve_packurl -> install_from_zip.               *)
(*                                                                         *)
(* One run of install_from_path is one behaviour.  The caller's arguments  *)
(* (path, instance_name) and the instances already registered are fixed by *)
(* Init; everything that arrives from outside during the run (HTTP         *)
(* responses, the archive's bytes, the outcome of forge.install, of a file *)
(* write, of a download) is drawn when the code reads it.                  *)
(*                                                                         *)
(* Three specifications share the variables:                               *)
(*   Spec, FairSpec  one run of install_from_path;                         *)
(*   PoolSpec        the fallback phase of a pack with more unresolved     *)
(*                   projects than the thread pool has workers;            *)
(*   MainSpec        one invocation of main() (src/picomc/main.py), which  *)
(*                   sets up the process-wide context and releases it.     *)
(***************************************************************************)
EXTENDS Integers, Sequences, FiniteSets, TLC

VARIABLES
    pc,             \* position of the main thread
    path,           \* install_from_path's locator argument
    instance_name,  \* the instance_name argument, later the derived name
    registered,     \* instance_manager: the registered instances
    net,            \* every HTTP request issued so far
    zipurl,         \* resolve_packurl's result
    tempfile,       \* the TemporaryFile: "none", "open", "closed"
    tempcount,      \* temporary files created by this run
    zip_entered,    \* install_from_zip was called
    manifest,       \* json.load(manifest.json)
    forge_ver,      \* loader version after the prefix was cut off
    forge_installed,\* forge: the loader versions installed
    inst,           \* the handle instance_manager.create returned
    entries_left,   \* entries of pack_zf.infolist() not visited yet
    fileinfo,       \* the overlay loop's variable
    written,        \* paths the overlay copy has written
    project_files,  \* dict projectID -> fileID
    modcount,       \* len(project_files) before the batch phase
    batch_left,     \* elements of projects_meta not visited yet
    dq,             \* DownloadQueue: the tasks added, in order
    futmap,         \* pid -> state of the future submitted for it
    lookups,        \* pid -> number of per-file GETs issued for it
    observed,       \* futures as_completed has handed to the main thread
    downloads,      \* result of dq.download(): one outcome per task
    err,            \* the exception that ended the run, "" while none
    steps,          \* history: the orchestrator steps begun, in order
    caught,         \* the exception the except clause has just handled
    mpc,            \* main.py: position of main()
    Env,            \* main.py: the attributes set on picomc.env.Env
    existing,       \* main.py: directories present under the root
    dirs_left,      \* main.py: entries of `dirs` not visited yet
    estack,         \* main.py: the ExitStack's callbacks, oldest first
    released,       \* main.py: the resources released, in order
    merr            \* main.py: the exception leaving picomc_cli, "" if none

\* The state of one install_from_path run (src/picomc/mod/curse.py).
installvars == <<pc, path, instance_name, registered, net, zipurl, tempfile,
                 tempcount, zip_entered, manifest, forge_ver, forge_installed,
                 inst, entries_left, fileinfo, written, project_files,
                 modcount, batch_left, dq, futmap, lookups, observed,
                 downloads, err, steps, caught>>

\* The state of one invocation of main() (src/picomc/main.py).
mainvars == <<mpc, Env, existing, dirs_left, estack, released, merr>>

vars == <<installvars, mainvars>>

-----------------------------------------------------------------------------
(* Bounds of the model *)

MaxFiles == 2      \* longest manifest "files" list
MaxLatest == 2     \* longest "latestFiles" list of a batch project object
MaxResp == 2       \* most project objects in the batch response
MaxEntries == 2    \* most archive entries visited by the overlay loop

(* Program constants *)

max_workers == 16
FORGE_PREFIX == "forge-"

None == "None"
NoName == <<>>      \* instance_name=None
NoManifest == [none |-> TRUE]
NoInst == [none |-> TRUE]
NoFile == [none |-> TRUE]

-----------------------------------------------------------------------------
(* Strings are sequences of tokens, so that startswith/endswith and the    *)
(* regular expression of resolve_packurl are computed, not assumed.        *)

CF == "www.curseforge.com/minecraft/modpacks/"
ZIP_URL == <<"https://", "edge.forgecdn.net/", "files/pack", ".zip">>

Locators ==
    { [exists |-> TRUE,  text |-> <<"/home/u/", "pack", ".zip">>],
      [exists |-> FALSE, text |-> <<"https://", "example.com/", "pack", ".zip">>],
      [exists |-> FALSE, text |-> <<"https://", CF, "my-pack", "/", "download", "/", "123", "">>],
      [exists |-> FALSE, text |-> <<"https://", CF, "my-pack", "/", "files", "/", "123", "/file">>],
      [exists |-> FALSE, text |-> <<"https://", "host/", "my-pack", "/", "download", "/", "123", "">>],
      [exists |-> FALSE, text |-> <<"http://", "example.com/", "pack", ".zip">>] }

startswith(s, tok) == Len(s) > 0 /\ s[1] = tok
endswith(s, tok) == Len(s) > 0 /\ s[Len(s)] = tok

Digits == {"123", "4567"}
Slugs == {"my-pack"}

\* re.match of the pattern at curse.py:30; the groups are the tokens.
regex_match(s) ==
    /\ Len(s) = 8
    /\ s[1] \in {"https://", "twitch://"}
    /\ s[2] = CF
    /\ s[3] \in Slugs
    /\ s[4] = "/"
    /\ s[5] \in {"download", "download-client", "files"}
    /\ s[6] = "/"
    /\ s[7] \in Digits
    /\ s[8] \in {"/file", "?client=y", ""}

\* match.group(3)
regex_file_id(s) == s[7]

\* The scheme not looked at: everything that ends in .zip is a direct URL.
classify_anyScheme(s) ==
    IF endswith(s, ".zip") THEN "direct"
    ELSE IF regex_match(s) THEN "page"
    ELSE "unsupported"

\* The three outcomes of resolve_packurl's classification.
classify(s) ==
    IF startswith(s, "https://") /\ endswith(s, ".zip") THEN "direct"
    ELSE IF regex_match(s) THEN "page"
    ELSE "unsupported"

-----------------------------------------------------------------------------
(* Paths are sequences of parts, as pathlib's .parts; "/" is the anchor.   *)

RECURSIVE DropDots(_)
\* PurePath(str): "." parts and empty parts vanish, ".." parts stay.
DropDots(raw) ==
    IF raw = <<>> THEN <<>>
    ELSE IF Head(raw) \in {".", ""} THEN DropDots(Tail(raw))
    ELSE <<Head(raw)>> \o DropDots(Tail(raw))

PurePath(raw) == DropDots(raw)

IsAbsolute(p) == Len(p) > 0 /\ p[1] = "/"

IsPrefix(a, b) == Len(a) <= Len(b) /\ SubSeq(b, 1, Len(a)) = a

\* PurePath.relative_to raises ValueError unless `other` is a leading part.
relative_to_ok(p, other) == IsPrefix(other, p)
relative_to(p, other) == SubSeq(p, Len(other) + 1, Len(p))

\* Path.__truediv__: an absolute right operand replaces the left one.
Join(a, b) == IF IsAbsolute(b) THEN b ELSE a \o b

RECURSIVE Resolve(_, _)
\* Where the operating system ends up when it opens the path: ".." steps
\* back, except at the anchor; on a relative path the excess ".." remain.
Resolve(done, rest) ==
    IF rest = <<>> THEN done
    ELSE IF Head(rest) = ".."
         THEN IF done = <<>> \/ done[Len(done)] = ".."
              THEN Resolve(done \o <<"..">>, Tail(rest))
              ELSE IF done = <<"/">> THEN Resolve(done, Tail(rest))
              ELSE Resolve(SubSeq(done, 1, Len(done) - 1), Tail(rest))
         ELSE Resolve(done \o <<Head(rest)>>, Tail(rest))

Inside(p, root) == IsPrefix(root, Resolve(<<>>, p)) /\ Resolve(<<>>, p) # root

-----------------------------------------------------------------------------
(* The inputs *)

ProjectIds == {1, 2}
FileIds == {10, 20}
\* A catalog "fileName", as raw parts: a plain name and an absolute one.
FileNames == { <<"x.jar">>, <<"/", "tmp", "evil.jar">> }

ModRefs ==
    { [projectID |-> 1, fileID |-> 10], [projectID |-> 1, fileID |-> 20],
      [projectID |-> 2, fileID |-> 10] }

RECURSIVE SeqsUpTo(_, _)
SeqsUpTo(S, n) ==
    IF n = 0 THEN {<<>>}
    ELSE LET shorter == SeqsUpTo(S, n - 1)
         IN  shorter \cup {Append(s, x) : s \in {t \in shorter : Len(t) = n - 1}, x \in S}

\* A loader id "<loader-name>-<version>" as <<prefix, version>>.
FORGE_36 == <<"forge-", "36.2.0">>

BaseManifest ==
    [manifestType |-> "minecraftModpack", manifestVersion |-> 1,
     modLoaders |-> <<FORGE_36>>, version_mc |-> "1.16.5",
     name |-> <<"My", "/", "Pack">>, version |-> <<"1.0">>,
     overrides |-> <<"overrides">>,
     files |-> <<>>]

ValidManifests == {[BaseManifest EXCEPT !.files = f] : f \in SeqsUpTo(ModRefs, MaxFiles)}

InvalidManifests ==
    { [BaseManifest EXCEPT !.manifestType = "other"],
      [BaseManifest EXCEPT !.manifestVersion = 2],
      [BaseManifest EXCEPT !.modLoaders = <<>>],
      [BaseManifest EXCEPT !.modLoaders = <<FORGE_36, <<"forge-", "14.23.5">> >>],
      [BaseManifest EXCEPT !.modLoaders = << <<"fabric-", "0.11.3">> >>] }

Manifests == ValidManifests \cup InvalidManifests

\* Entries an archive may hold: raw name parts and whether the name ends
\* with "/" (ZipInfo.is_dir).
ZipEntries ==
    { [filename |-> <<"manifest.json">>, dir |-> FALSE],
      [filename |-> <<"overrides">>, dir |-> TRUE],
      [filename |-> <<"overrides", ".", "mods", "x.jar">>, dir |-> FALSE],
      [filename |-> <<"overrides", "..", "..", "..", "evil.sh">>, dir |-> FALSE],
      [filename |-> <<"/", "etc", "evil.sh">>, dir |-> FALSE] }

FileObjects == [id : FileIds, fileName : FileNames]
ProjectObjects == [id : ProjectIds, latestFiles : SeqsUpTo(FileObjects, MaxLatest)]

MINE == <<"mine">>
ELSEWHERE == <<"elsewhere">>
PACK_NAME == <<"My", "_", "Pack", "-", "1.0">>
OLD_VERSION == <<"1.12.2">>
OldInstance(n) == [name |-> n, version |-> OLD_VERSION, memory_max |-> "2G"]

-----------------------------------------------------------------------------
(* Helpers of install_from_zip *)

\* forge_ver[len(FORGE_PREFIX):]
CutPrefix(id) == id[2]

\* The asserts without the one on the loader prefix.
ManifestValid_anyLoader(m) ==
    /\ m.manifestType = "minecraftModpack"
    /\ m.manifestVersion = 1
    /\ Len(m.modLoaders) = 1

\* The four asserts of curse.py:47-53, in order.
ManifestValid(m) ==
    /\ m.manifestType = "minecraftModpack"
    /\ m.manifestVersion = 1
    /\ Len(m.modLoaders) = 1
    /\ startswith(m.modLoaders[1], FORGE_PREFIX)

\* picomc.utils.sanitize_name: characters unsafe in a path component are
\* replaced.
sanitize_name(s) == [i \in 1..Len(s) |-> IF s[i] \in {"/", ".."} THEN "_" ELSE s[i]]

\* "{}-{}".format(sanitize_name(packname), sanitize_name(packver))
\* The name built as the version string is built.
DerivedName_fromLoader(m) == <<m.version_mc, "-forge-", CutPrefix(m.modLoaders[1])>>

\* curse.py:55-65: "{}-{}" of the sanitized pack name and pack version.
DerivedName(m) == sanitize_name(m.name) \o <<"-">> \o sanitize_name(m.version)

\* "{}-forge-{}".format(manifest["minecraft"]["version"], forge_ver)
VersionName(m, fv) == <<m.version_mc, "-forge-", fv>>

exists(name) == \E i \in registered : i.name = name

\* The tokens of an instance name joined into the one path component they
\* spell.
Spelled(name) ==
    CASE name = MINE -> "mine"
      [] name = PACK_NAME -> "My_Pack-1.0"
      [] name = ELSEWHERE -> "elsewhere"
      [] OTHER -> "unnamed"

\* Path(inst.get_relpath())
inst_dir(i) == <<"instances", Spelled(i.name)>>
mcdir(i) == inst_dir(i) \o <<"minecraft">>
moddir(i) == mcdir(i) \o <<"mods">>

RECURSIVE DictOf(_)
\* {mod["projectID"]: mod["fileID"] for mod in files}: the last one wins.
DictOf(files) ==
    IF files = <<>> THEN <<>>
    ELSE LET last == files[Len(files)]
             rest == DictOf(SubSeq(files, 1, Len(files) - 1))
         IN  [p \in DOMAIN rest \cup {last.projectID} |->
                 IF p = last.projectID THEN last.fileID ELSE rest[p]]

\* A `del` that is forgotten.
Without_kept(d, p) == d

\* del d[p]
Without(d, p) == [q \in DOMAIN d \ {p} |-> d[q]]

\* The temporary file not bound to a with block: unwinding leaves it open.
Unwound_leaks(t) == t

\* Exception unwinding leaves the `with TemporaryFile()` block.
Unwound(t) == IF t = "open" THEN "closed" ELSE t

Raise(e) ==
    /\ pc' = "error"
    /\ err' = e
    /\ tempfile' = Unwound(tempfile)

-----------------------------------------------------------------------------
NoEnv == [none |-> TRUE]

\* main() has not been called: nothing of main.py has run.
MainIdle ==
    /\ mpc = "main"
    /\ Env = NoEnv
    /\ existing = {}
    /\ dirs_left = 0
    /\ estack = <<>>
    /\ released = <<>>
    /\ merr = ""

\* install_from_path has been called and has done nothing yet.
InstallFresh ==
    /\ pc = "start"
    /\ net = {}
    /\ zipurl = <<>>
    /\ tempfile = "none"
    /\ tempcount = 0
    /\ zip_entered = FALSE
    /\ manifest = NoManifest
    /\ forge_ver = None
    /\ inst = NoInst
    /\ entries_left = 0
    /\ fileinfo = NoFile
    /\ written = {}
    /\ project_files = <<>>
    /\ modcount = 0
    /\ batch_left = 0
    /\ dq = <<>>
    /\ futmap = <<>>
    /\ lookups = <<>>
    /\ observed = {}
    /\ downloads = <<>>
    /\ err = ""
    /\ steps = <<>>
    /\ caught = ""

Init ==
    /\ path \in Locators
    /\ instance_name \in {NoName, MINE}
    /\ registered \in { {OldInstance(ELSEWHERE)},
                        {OldInstance(ELSEWHERE), OldInstance(MINE), OldInstance(PACK_NAME)} }
    /\ forge_installed \in {{}, {"36.2.0"}}
    /\ InstallFresh
    /\ MainIdle

-----------------------------------------------------------------------------
(* install_from_path and resolve_packurl *)

\* curse.py:174-177.  ZipFile(path) opens the archive (or raises
\* BadZipFile); open() is then handed the ZipFile object, not a path, and
\* raises TypeError before install_from_zip is called.
OpenLocalPath ==
    /\ pc = "start"
    /\ path.exists
    /\ \E e \in {"BadZipFile", "TypeError"} : Raise(e)
    /\ steps' = steps \o <<"locator", "fetch">>
    /\ UNCHANGED <<mainvars, caught>>
    /\ UNCHANGED <<path, instance_name, registered, net, zipurl, tempcount,
                   zip_entered, manifest, forge_ver, forge_installed, inst,
                   entries_left, fileinfo, written, project_files, modcount,
                   batch_left, dq, futmap, lookups, observed, downloads>>

\* curse.py:28-29: an https:// URL ending in .zip is returned as it is.
ResolveDirect ==
    /\ pc = "start"
    /\ ~path.exists
    /\ classify(path.text) = "direct"
    /\ zipurl' = path.text
    /\ pc' = "fetch"
    /\ steps' = Append(steps, "locator")
    /\ UNCHANGED <<mainvars, caught>>
    /\ UNCHANGED <<path, instance_name, registered, net, tempfile, tempcount,
                   zip_entered, manifest, forge_ver, forge_installed, inst,
                   entries_left, fileinfo, written, project_files, modcount,
                   batch_left, dq, futmap, lookups, observed, downloads, err>>

\* curse.py:30-37: a download page URL; its file id is resolved to a URL.
ResolvePage ==
    /\ pc = "start"
    /\ ~path.exists
    /\ classify(path.text) = "page"
    /\ net' = net \cup {[kind |-> "geturl", id |-> regex_file_id(path.text)]}
    /\ steps' = Append(steps, "locator")
    /\ \/ /\ Raise("HTTPError")
          /\ UNCHANGED zipurl
       \/ /\ zipurl' = ZIP_URL
          /\ pc' = "fetch"
          /\ UNCHANGED <<tempfile, err>>
    /\ UNCHANGED <<mainvars, caught>>
    /\ UNCHANGED <<path, instance_name, registered, tempcount, zip_entered,
                   manifest, forge_ver, forge_installed, inst, entries_left,
                   fileinfo, written, project_files, modcount, batch_left,
                   dq, futmap, lookups, observed, downloads>>

\* curse.py:38-39
ResolveUnsupported ==
    /\ pc = "start"
    /\ ~path.exists
    /\ classify(path.text) = "unsupported"
    /\ Raise("ValueError")
    /\ steps' = Append(steps, "locator")
    /\ UNCHANGED <<mainvars, caught>>
    /\ UNCHANGED <<path, instance_name, registered, net, zipurl, tempcount,
                   zip_entered, manifest, forge_ver, forge_installed, inst,
                   entries_left, fileinfo, written, project_files, modcount,
                   batch_left, dq, futmap, lookups, observed, downloads>>

\* curse.py:180-185: the body is streamed into a temporary file, and
\* install_from_zip is called on it once every chunk is written.
FetchArchive ==
    /\ pc = "fetch"
    /\ net' = net \cup {[kind |-> "getzip", url |-> zipurl]}
    /\ steps' = Append(steps, "fetch")
    /\ \/ /\ \E e \in {"ConnectionError", "HTTPError"} : Raise(e)
          /\ UNCHANGED <<tempcount, zip_entered>>
       \/ /\ pc' = "error"                 \* the stream breaks off
          /\ err' = "ChunkedEncodingError"
          /\ tempfile' = "closed"
          /\ tempcount' = tempcount + 1
          /\ UNCHANGED zip_entered
       \/ /\ pc' = "zip"
          /\ tempfile' = "open"
          /\ tempcount' = tempcount + 1
          /\ zip_entered' = TRUE
          /\ UNCHANGED err
    /\ UNCHANGED <<mainvars, caught>>
    /\ UNCHANGED <<path, instance_name, registered, zipurl, manifest,
                   forge_ver, forge_installed, inst, entries_left, fileinfo,
                   written, project_files, modcount, batch_left, dq, futmap,
                   lookups, observed, downloads>>

-----------------------------------------------------------------------------
(* install_from_zip *)

\* curse.py:43-45
ReadManifest ==
    /\ pc = "zip"
    /\ steps' = Append(steps, "manifest")
    /\ \/ /\ \E e \in {"BadZipFile", "KeyError", "JSONDecodeError"} : Raise(e)
          /\ UNCHANGED manifest
       \/ /\ \E m \in Manifests : manifest' = m
          /\ pc' = "validate"
          /\ UNCHANGED <<tempfile, err>>
    /\ UNCHANGED <<mainvars, caught>>
    /\ UNCHANGED <<path, instance_name, registered, net, zipurl, tempcount,
                   zip_entered, forge_ver, forge_installed, inst, entries_left,
                   fileinfo, written, project_files, modcount, batch_left,
                   dq, futmap, lookups, observed, downloads>>

\* curse.py:47-65
ValidateManifest ==
    /\ pc = "validate"
    /\ IF ManifestValid(manifest)
       THEN /\ forge_ver' = CutPrefix(manifest.modLoaders[1])
            /\ instance_name' = IF instance_name = NoName
                                THEN DerivedName(manifest)
                                ELSE instance_name
            /\ pc' = "preflight"
            /\ UNCHANGED <<tempfile, err>>
       ELSE /\ Raise("AssertionError")
            /\ UNCHANGED <<forge_ver, instance_name>>
    /\ UNCHANGED <<mainvars, caught>>
    /\ UNCHANGED <<path, registered, net, zipurl, tempcount, zip_entered,
                   manifest, forge_installed, inst, entries_left, fileinfo,
                   written, project_files, modcount, batch_left, dq, futmap,
                   lookups, observed, downloads, steps>>

\* picomc.utils.die: logs the message and exits the process.
die == Raise("SystemExit")

\* The existence check made only after forge.install has run.
Preflight_afterForge ==
    /\ pc = "preflight"
    /\ steps' = steps \o <<"forge", "preflight">>
    /\ forge_installed' = forge_installed \cup {forge_ver}
    /\ IF exists(instance_name)
       THEN die
       ELSE /\ pc' = "create"
            /\ UNCHANGED <<tempfile, err>>
    /\ UNCHANGED <<mainvars, caught>>
    /\ UNCHANGED <<path, instance_name, registered, net, zipurl, tempcount,
                   zip_entered, manifest, forge_ver, inst, entries_left,
                   fileinfo, written, project_files, modcount, batch_left,
                   dq, futmap, lookups, observed, downloads>>

\* curse.py:67-68
Preflight ==
    /\ pc = "preflight"
    /\ steps' = Append(steps, "preflight")
    /\ IF exists(instance_name)
       THEN die
       ELSE /\ pc' = "forge"
            /\ UNCHANGED <<tempfile, err>>
    /\ UNCHANGED <<mainvars, caught>>
    /\ UNCHANGED <<path, instance_name, registered, net, zipurl, tempcount,
                   zip_entered, manifest, forge_ver, forge_installed, inst,
                   entries_left, fileinfo, written, project_files, modcount,
                   batch_left, dq, futmap, lookups, observed, downloads>>

\* The except clause missing: AlreadyInstalledError ends the run as well.
ForgeInstall_alreadyIsFatal ==
    /\ pc = "forge"
    /\ steps' = Append(steps, "forge")
    /\ IF forge_ver \in forge_installed
       THEN /\ Raise("AlreadyInstalledError")
            /\ caught' = ""
            /\ UNCHANGED forge_installed
       ELSE \/ /\ forge_installed' = forge_installed \cup {forge_ver}
               /\ pc' = "create"
               /\ caught' = ""
               /\ UNCHANGED <<tempfile, err>>
            \/ /\ Raise("ForgeInstallError")
               /\ caught' = ""
               /\ UNCHANGED forge_installed
    /\ UNCHANGED mainvars
    /\ UNCHANGED <<path, instance_name, registered, net, zipurl, tempcount,
                   zip_entered, manifest, forge_ver, inst, entries_left,
                   fileinfo, written, project_files, modcount, batch_left,
                   dq, futmap, lookups, observed, downloads>>

\* curse.py:70-77: forge.install raises AlreadyInstalledError when the
\* version is installed; the except clause handles it with `pass`.  Any
\* other exception leaves install_from_zip.
ForgeInstall ==
    /\ pc = "forge"
    /\ steps' = Append(steps, "forge")
    /\ IF forge_ver \in forge_installed
       THEN /\ caught' = "AlreadyInstalledError"
            /\ pc' = "create"
            /\ UNCHANGED <<forge_installed, tempfile, err>>
       ELSE \/ /\ forge_installed' = forge_installed \cup {forge_ver}
               /\ pc' = "create"
               /\ caught' = ""
               /\ UNCHANGED <<tempfile, err>>
            \/ /\ Raise("ForgeInstallError")
               /\ caught' = ""
               /\ UNCHANGED forge_installed
    /\ UNCHANGED mainvars
    /\ UNCHANGED <<path, instance_name, registered, net, zipurl, tempcount,
                   zip_entered, manifest, forge_ver, inst, entries_left,
                   fileinfo, written, project_files, modcount, batch_left,
                   dq, futmap, lookups, observed, downloads>>

\* curse.py:80-83
CreateInstance ==
    /\ pc = "create"
    /\ steps' = Append(steps, "create")
    /\ inst' = [name |-> instance_name,
                version |-> VersionName(manifest, forge_ver),
                memory_max |-> "2G"]
    /\ registered' = registered \cup {inst'}
    /\ caught' = ""                        \* the handled exception is gone
    /\ pc' = "config"
    /\ UNCHANGED mainvars
    /\ UNCHANGED <<path, instance_name, net, zipurl, tempfile, tempcount,
                   zip_entered, manifest, forge_ver, forge_installed,
                   entries_left, fileinfo, written, project_files, modcount,
                   batch_left, dq, futmap, lookups, observed, downloads, err>>

\* curse.py:85
SetMemoryMax ==
    /\ pc = "config"
    /\ steps' = Append(steps, "config")
    /\ inst' = [inst EXCEPT !.memory_max = "4G"]
    /\ registered' = (registered \ {inst}) \cup {inst'}
    /\ pc' = "overlay_begin"
    /\ UNCHANGED <<mainvars, caught>>
    /\ UNCHANGED <<path, instance_name, net, zipurl, tempfile, tempcount,
                   zip_entered, manifest, forge_ver, forge_installed,
                   entries_left, fileinfo, written, project_files, modcount,
                   batch_left, dq, futmap, lookups, observed, downloads, err>>

\* curse.py:86-90: pack_zf.infolist() holds at least the manifest's entry.
OverlayBegin ==
    /\ pc = "overlay_begin"
    /\ steps' = Append(steps, "overlay")
    /\ \E n \in 1..MaxEntries : entries_left' = n
    /\ pc' = "overlay"
    /\ UNCHANGED <<mainvars, caught>>
    /\ UNCHANGED <<path, instance_name, registered, net, zipurl, tempfile,
                   tempcount, zip_entered, manifest, forge_ver, forge_installed,
                   inst, fileinfo, written, project_files, modcount,
                   batch_left, dq, futmap, lookups, observed, downloads, err>>

\* curse.py:95
outpath(e) ==
    Join(mcdir(inst), relative_to(PurePath(e.filename), PurePath(manifest.overrides)))

\* The is_dir() test left out.
Skipped_dirsCopied(e) ==
    ~relative_to_ok(PurePath(e.filename), PurePath(manifest.overrides))

\* curse.py:91-97: the entries the loop body `continue`s over.
Skipped(e) ==
    \/ e.dir
    \/ ~relative_to_ok(PurePath(e.filename), PurePath(manifest.overrides))

\* A failed write is passed over and the loop goes on.
OverlayEntry_carriesOn(e) ==
    /\ pc = "overlay"
    /\ entries_left > 0
    /\ entries_left' = entries_left - 1
    /\ fileinfo' = e
    /\ IF Skipped(e)
       THEN UNCHANGED <<pc, written, tempfile, err>>
       ELSE \/ /\ written' = written \cup {outpath(e)}
               /\ UNCHANGED <<pc, tempfile, err>>
            \/ /\ err' = "OSError"
               /\ UNCHANGED <<pc, tempfile, written>>
    /\ UNCHANGED <<mainvars, caught>>
    /\ UNCHANGED <<path, instance_name, registered, net, zipurl, tempcount,
                   zip_entered, manifest, forge_ver, forge_installed, inst,
                   project_files, modcount, batch_left, dq, futmap, lookups,
                   observed, downloads, steps>>

\* curse.py:90-101, one iteration of the loop.
OverlayEntry(e) ==
    /\ pc = "overlay"
    /\ entries_left > 0
    /\ entries_left' = entries_left - 1
    /\ fileinfo' = e
    /\ IF Skipped(e)
       THEN UNCHANGED <<pc, written, tempfile, err>>
       ELSE \/ /\ written' = written \cup {outpath(e)}
               /\ UNCHANGED <<pc, tempfile, err>>
            \/ /\ Raise("OSError")       \* mkdir or open or the copy fails
               /\ UNCHANGED written
    /\ UNCHANGED <<mainvars, caught>>
    /\ UNCHANGED <<path, instance_name, registered, net, zipurl, tempcount,
                   zip_entered, manifest, forge_ver, forge_installed, inst,
                   project_files, modcount, batch_left, dq, futmap, lookups,
                   observed, downloads, steps>>

-----------------------------------------------------------------------------
(* Metadata resolution: batch phase *)

\* dq.add(file_info["downloadUrl"], moddir / file_info["fileName"], ...).
\* pid, file_id and phase record where the task comes from: the project it
\* was enqueued for and the id of the catalog file object it was built of.
Task(pid, file_info, phase) ==
    [pid |-> pid, file_id |-> file_info.id,
     dest |-> Join(moddir(inst), PurePath(file_info.fileName)),
     phase |-> phase]

\* The first of latestFiles is taken whatever its id.
Wanted_any(want_file, file_info) == TRUE

\* curse.py:126
Wanted(want_file, file_info) == want_file = file_info.id

RECURSIVE ScanLatest(_, _, _, _, _)
\* curse.py:125-132, the inner loop.  want_file was read before the loop,
\* so a second match adds its task too and then `del` raises KeyError.
ScanLatest(files, want_file, pid, q, deleted) ==
    IF files = <<>> THEN [dq |-> q, deleted |-> deleted, raised |-> FALSE]
    ELSE IF Wanted(want_file, Head(files))
         THEN LET q2 == Append(q, Task(pid, Head(files), "batch"))
              IN  IF deleted
                  THEN [dq |-> q2, deleted |-> TRUE, raised |-> TRUE]
                  ELSE ScanLatest(Tail(files), want_file, pid, q2, TRUE)
         ELSE ScanLatest(Tail(files), want_file, pid, q, deleted)

\* curse.py:103-121
BeginResolve ==
    /\ pc = "overlay"
    /\ entries_left = 0
    /\ steps' = Append(steps, "resolve")
    /\ fileinfo' = NoFile
    /\ project_files' = DictOf(manifest.files)
    /\ modcount' = Cardinality(DOMAIN DictOf(manifest.files))
    /\ dq' = <<>>
    /\ net' = net \cup {[kind |-> "batch", ids |-> DOMAIN DictOf(manifest.files)]}
    /\ \/ /\ Raise("HTTPError")
          /\ UNCHANGED batch_left
       \/ /\ \E n \in 0..MaxResp : batch_left' = n
          /\ pc' = "batch"
          /\ UNCHANGED <<tempfile, err>>
    /\ UNCHANGED <<mainvars, caught>>
    /\ UNCHANGED <<path, instance_name, registered, zipurl, tempcount,
                   zip_entered, manifest, forge_ver, forge_installed, inst,
                   entries_left, written, futmap, lookups, observed,
                   downloads>>

\* curse.py:122-132, one iteration of the outer loop on the next element
\* of projects_meta.
BatchProject(proj) ==
    /\ pc = "batch"
    /\ batch_left > 0
    /\ batch_left' = batch_left - 1
    /\ IF proj.id \notin DOMAIN project_files
       THEN /\ Raise("KeyError")
            /\ UNCHANGED <<dq, project_files>>
       ELSE LET r == ScanLatest(proj.latestFiles, project_files[proj.id],
                                proj.id, dq, FALSE)
            IN  /\ dq' = r.dq
                /\ project_files' = IF r.deleted
                                    THEN Without(project_files, proj.id)
                                    ELSE project_files
                /\ IF r.raised
                   THEN Raise("KeyError")
                   ELSE UNCHANGED <<pc, tempfile, err>>
    /\ UNCHANGED <<mainvars, caught>>
    /\ UNCHANGED <<path, instance_name, registered, net, zipurl, tempcount,
                   zip_entered, manifest, forge_ver, forge_installed, inst,
                   entries_left, fileinfo, written, modcount, futmap,
                   lookups, observed, downloads, steps>>

-----------------------------------------------------------------------------
(* Metadata resolution: fallback phase *)

\* curse.py:134-155: one future per entry left in project_files.
SubmitLookups ==
    /\ pc = "batch"
    /\ batch_left = 0
    /\ futmap' = [p \in DOMAIN project_files |-> "pending"]
    /\ lookups' = [p \in DOMAIN project_files |-> 0]
    /\ pc' = "fallback"
    /\ UNCHANGED <<mainvars, caught>>
    /\ UNCHANGED <<path, instance_name, registered, net, zipurl, tempfile,
                   tempcount, zip_entered, manifest, forge_ver, forge_installed,
                   inst, entries_left, fileinfo, written, project_files,
                   modcount, batch_left, dq, observed, downloads, err, steps>>

InFlight == {p \in DOMAIN futmap : futmap[p] = "running"}

Pending == {p \in DOMAIN futmap : futmap[p] = "pending"}

\* The head of the executor's work queue: the pending task submitted
\* first.  Tasks are submitted in the order of project_files.items(),
\* which is the order in which the project ids first occur in the
\* manifest's files list.
NextUp ==
    LET files == manifest.files
        i == CHOOSE k \in 1..Len(files) :
                 /\ files[k].projectID \in Pending
                 /\ \A j \in 1..(k - 1) : files[j].projectID \notin Pending
    IN  files[i].projectID

\* A pool without a limit on its worker threads.
StartLookup_unbounded(p) ==
    /\ pc = "fallback"
    /\ p \in DOMAIN futmap
    /\ futmap[p] = "pending"
    /\ p = NextUp
    /\ futmap' = [futmap EXCEPT ![p] = "running"]
    /\ lookups' = [lookups EXCEPT ![p] = @ + 1]
    /\ net' = net \cup {[kind |-> "getinfo", pid |-> p, fid |-> project_files[p]]}
    /\ UNCHANGED <<mainvars, caught>>
    /\ UNCHANGED <<pc, path, instance_name, registered, zipurl, tempfile,
                   tempcount, zip_entered, manifest, forge_ver, forge_installed,
                   inst, entries_left, fileinfo, written, project_files,
                   modcount, batch_left, dq, observed, downloads, err, steps>>

\* curse.py:138-141, 154: a worker of the pool, of which there are at most
\* max_workers, takes the task at the head of the work queue and sends its
\* request.
StartLookup(p) ==
    /\ pc = "fallback"
    /\ p \in DOMAIN futmap
    /\ futmap[p] = "pending"
    /\ Cardinality(InFlight) < max_workers
    /\ p = NextUp
    /\ futmap' = [futmap EXCEPT ![p] = "running"]
    /\ lookups' = [lookups EXCEPT ![p] = @ + 1]
    /\ net' = net \cup {[kind |-> "getinfo", pid |-> p, fid |-> project_files[p]]}
    /\ UNCHANGED <<mainvars, caught>>
    /\ UNCHANGED <<pc, path, instance_name, registered, zipurl, tempfile,
                   tempcount, zip_entered, manifest, forge_ver, forge_installed,
                   inst, entries_left, fileinfo, written, project_files,
                   modcount, batch_left, dq, observed, downloads, err, steps>>

\* curse.py:144
SameFile(file_info, fid) == file_info.id = fid

\* What the catalog may answer to a per-file request: an error status
\* (NoFile), or a file object.
Responses == {NoFile} \cup FileObjects

\* curse.py:142-149: what dl makes of the response, the state its future
\* ends in and the queue it leaves.
Outcome(p, resp) ==
    IF resp = NoFile
    THEN [state |-> "failed", dq |-> dq]        \* raise_for_status
    ELSE IF SameFile(resp, project_files[p])
         THEN [state |-> "done",
               dq |-> Append(dq, Task(p, resp, "fallback"))]
         ELSE [state |-> "failed", dq |-> dq]   \* the assert

\* A failed lookup takes the lookups not yet finished down with it.
FinishLookup_cancelsSiblings(p) ==
    /\ pc = "fallback"
    /\ p \in DOMAIN futmap
    /\ futmap[p] = "running"
    /\ \E o \in {Outcome(p, resp) : resp \in Responses} :
           /\ futmap' = IF o.state = "failed"
                        THEN [q \in DOMAIN futmap |->
                                 IF futmap[q] \in {"pending", "running"}
                                 THEN "failed" ELSE futmap[q]]
                        ELSE [futmap EXCEPT ![p] = o.state]
           /\ dq' = o.dq
    /\ UNCHANGED <<mainvars, caught>>
    /\ UNCHANGED <<pc, path, instance_name, registered, net, zipurl, tempfile,
                   tempcount, zip_entered, manifest, forge_ver, forge_installed,
                   inst, entries_left, fileinfo, written, project_files,
                   modcount, batch_left, lookups, observed, downloads, err,
                   steps>>

\* curse.py:141-149: the response arrives and dl ends, with an exception
\* kept in its future or with its task added; responses that dl treats
\* alike make one step.
FinishLookup(p) ==
    /\ pc = "fallback"
    /\ p \in DOMAIN futmap
    /\ futmap[p] = "running"
    /\ \E o \in {Outcome(p, resp) : resp \in Responses} :
           /\ futmap' = [futmap EXCEPT ![p] = o.state]
           /\ dq' = o.dq
    /\ UNCHANGED <<mainvars, caught>>
    /\ UNCHANGED <<pc, path, instance_name, registered, net, zipurl, tempfile,
                   tempcount, zip_entered, manifest, forge_ver, forge_installed,
                   inst, entries_left, fileinfo, written, project_files,
                   modcount, batch_left, lookups, observed, downloads, err,
                   steps>>

\* fut.result() outside the try: the task's exception ends the run.
ObserveFuture_reraises(p) ==
    /\ pc = "fallback"
    /\ p \in DOMAIN futmap
    /\ futmap[p] \in {"done", "failed"}
    /\ p \notin observed
    /\ observed' = observed \cup {p}
    /\ IF futmap[p] = "failed"
       THEN Raise("HTTPError")
       ELSE UNCHANGED <<pc, tempfile, err>>
    /\ UNCHANGED <<mainvars, caught>>
    /\ UNCHANGED <<path, instance_name, registered, net, zipurl,
                   tempcount, zip_entered, manifest, forge_ver, forge_installed,
                   inst, entries_left, fileinfo, written, project_files,
                   modcount, batch_left, dq, futmap, lookups, downloads,
                   steps>>

\* curse.py:157-166: as_completed hands over a finished future; its
\* exception is logged, never re-raised.
ObserveFuture(p) ==
    /\ pc = "fallback"
    /\ p \in DOMAIN futmap
    /\ futmap[p] \in {"done", "failed"}
    /\ p \notin observed
    /\ observed' = observed \cup {p}
    /\ UNCHANGED <<mainvars, caught>>
    /\ UNCHANGED <<pc, path, instance_name, registered, net, zipurl, tempfile,
                   tempcount, zip_entered, manifest, forge_ver, forge_installed,
                   inst, entries_left, fileinfo, written, project_files,
                   modcount, batch_left, dq, futmap, lookups, downloads, err,
                   steps>>

\* The main thread goes on without waiting for the futures.
EndFallback_early ==
    /\ pc = "fallback"
    /\ pc' = "download"
    /\ UNCHANGED <<mainvars, caught>>
    /\ UNCHANGED <<path, instance_name, registered, net, zipurl, tempfile,
                   tempcount, zip_entered, manifest, forge_ver, forge_installed,
                   inst, entries_left, fileinfo, written, project_files,
                   modcount, batch_left, dq, futmap, lookups, observed,
                   downloads, err, steps>>

\* curse.py:157-168: as_completed is exhausted and the pool is shut down.
EndFallback ==
    /\ pc = "fallback"
    /\ observed = DOMAIN futmap
    /\ pc' = "download"
    /\ UNCHANGED <<mainvars, caught>>
    /\ UNCHANGED <<path, instance_name, registered, net, zipurl, tempfile,
                   tempcount, zip_entered, manifest, forge_ver, forge_installed,
                   inst, entries_left, fileinfo, written, project_files,
                   modcount, batch_left, dq, futmap, lookups, observed,
                   downloads, err, steps>>

-----------------------------------------------------------------------------
(* Download and report *)

\* curse.py:169.  DownloadQueue.download runs every task to its end; a
\* task that fails is reported, not raised.
Download ==
    /\ pc = "download"
    /\ steps' = Append(steps, "download")
    /\ \E res \in [1..Len(dq) -> {"ok", "failed"}] : downloads' = res
    /\ pc' = "downloaded"
    /\ UNCHANGED <<mainvars, caught>>
    /\ UNCHANGED <<path, instance_name, registered, net, zipurl, tempfile,
                   tempcount, zip_entered, manifest, forge_ver, forge_installed,
                   inst, entries_left, fileinfo, written, project_files,
                   modcount, batch_left, dq, futmap, lookups, observed, err>>

\* "Done" reported without dq.download() having run.
Done_early ==
    /\ pc = "download"
    /\ steps' = Append(steps, "done")
    /\ tempfile' = Unwound(tempfile)
    /\ pc' = "done"
    /\ UNCHANGED <<mainvars, caught>>
    /\ UNCHANGED <<path, instance_name, registered, net, zipurl, tempcount,
                   zip_entered, manifest, forge_ver, forge_installed, inst,
                   entries_left, fileinfo, written, project_files, modcount,
                   batch_left, dq, futmap, lookups, observed, downloads, err>>

\* curse.py:170, and the return through the with blocks of
\* install_from_zip and install_from_path.
Done ==
    /\ pc = "downloaded"
    /\ steps' = Append(steps, "done")
    /\ tempfile' = Unwound(tempfile)
    /\ pc' = "done"
    /\ UNCHANGED <<mainvars, caught>>
    /\ UNCHANGED <<path, instance_name, registered, net, zipurl, tempcount,
                   zip_entered, manifest, forge_ver, forge_installed, inst,
                   entries_left, fileinfo, written, project_files, modcount,
                   batch_left, dq, futmap, lookups, observed, downloads, err>>

-----------------------------------------------------------------------------
Next ==
    \/ OpenLocalPath
    \/ ResolveDirect
    \/ ResolvePage
    \/ ResolveUnsupported
    \/ FetchArchive
    \/ ReadManifest
    \/ ValidateManifest
    \/ Preflight
    \/ ForgeInstall
    \/ CreateInstance
    \/ SetMemoryMax
    \/ OverlayBegin
    \/ \E e \in ZipEntries : OverlayEntry(e)
    \/ BeginResolve
    \/ \E proj \in ProjectObjects : BatchProject(proj)
    \/ SubmitLookups
    \/ \E p \in ProjectIds : StartLookup(p)
    \/ \E p \in ProjectIds : FinishLookup(p)
    \/ \E p \in ProjectIds : ObserveFuture(p)
    \/ EndFallback
    \/ Download
    \/ Done

Spec == Init /\ [][Next]_vars

\* The main thread and the pool's workers keep running: every step that
\* can be taken is taken.
FairSpec == Spec /\ WF_vars(Next)

-----------------------------------------------------------------------------
(* The fallback phase of a large pack: one project more than the pool has  *)
(* workers, none of them resolved by the batch request.                    *)

PoolIds == 1..(max_workers + 1)

\* A pack whose every file the catalog knows nothing of (file id 30).
PoolManifest ==
    [BaseManifest EXCEPT
        !.files = [i \in PoolIds |-> [projectID |-> i, fileID |-> 30]]]

PoolInstance ==
    [name |-> MINE, version |-> VersionName(PoolManifest, "36.2.0"),
     memory_max |-> "4G"]

\* install_from_zip at curse.py:155: every future is submitted, no worker
\* has taken a task yet.
PoolInit ==
    /\ pc = "fallback"
    /\ path = [exists |-> FALSE,
               text |-> <<"https://", "example.com/", "pack", ".zip">>]
    /\ instance_name = MINE
    /\ registered = {OldInstance(ELSEWHERE), PoolInstance}
    /\ net = {[kind |-> "getzip", url |-> path.text],
              [kind |-> "batch", ids |-> PoolIds]}
    /\ zipurl = path.text
    /\ tempfile = "open"
    /\ tempcount = 1
    /\ zip_entered = TRUE
    /\ manifest = PoolManifest
    /\ forge_ver = "36.2.0"
    /\ forge_installed = {"36.2.0"}
    /\ inst = PoolInstance
    /\ entries_left = 0
    /\ fileinfo = NoFile
    /\ written = {}
    /\ project_files = DictOf(PoolManifest.files)
    /\ modcount = Cardinality(PoolIds)
    /\ batch_left = 0
    /\ dq = <<>>
    /\ futmap = [p \in PoolIds |-> "pending"]
    /\ lookups = [p \in PoolIds |-> 0]
    /\ observed = {}
    /\ downloads = <<>>
    /\ err = ""
    /\ steps = <<"locator", "fetch", "manifest", "preflight", "forge",
                 "create", "config", "overlay", "resolve">>
    /\ caught = ""
    /\ MainIdle

\* The workers of the pool; the main thread waits in as_completed, and
\* what it is handed there does not act on the pool.
PoolNext ==
    \/ \E p \in PoolIds : StartLookup(p)
    \/ \E p \in PoolIds : FinishLookup(p)

\* Every request returns or fails, and an idle worker takes the next task.
PoolSpec == PoolInit /\ [][PoolNext]_vars /\ WF_vars(PoolNext)

-----------------------------------------------------------------------------
(* main.py: one invocation of main().  picomc_cli is a click group: click  *)
(* parses the command line, calls picomc_cli's body when a subcommand is  *)
(* to run, then runs the subcommand.  The ExitStack of main() releases     *)
(* what was entered into it when its with block is left, last entered      *)
(* first, whether the block is left normally or by an exception.           *)

\* check_directories' list; "".split("/") names the root itself.
dirs ==
    << <<>>, <<"instances">>, <<"versions">>, <<"assets">>,
       <<"assets", "indexes">>, <<"assets", "objects">>,
       <<"assets", "virtual">>, <<"libraries">> >>

DirSet == {dirs[i] : i \in DOMAIN dirs}

Ancestors(d) == {SubSeq(d, 1, k) : k \in 0..(Len(d) - 1)}

\* What can be there of the directory structure before main() runs: a
\* directory is there only with the directories above it.
DirStates ==
    {S \in SUBSET DirSet : \A d \in S : Ancestors(d) \subseteq S}

FreshEnv == [debug |-> None, app_root |-> None, am |-> None,
             gconf |-> None, vm |-> None]

\* install_from_path is not called in an invocation of main().
MainInit ==
    /\ mpc = "main"
    /\ Env = NoEnv
    /\ existing \in DirStates
    /\ dirs_left = 0
    /\ estack = <<>>
    /\ released = <<>>
    /\ merr = ""
    /\ path = [exists |-> TRUE, text |-> <<"/home/u/", "pack", ".zip">>]
    /\ instance_name = NoName
    /\ registered = {OldInstance(ELSEWHERE)}
    /\ forge_installed = {}
    /\ InstallFresh

\* An exception leaves picomc_cli(): the with block of main() is left.
Throw(e) ==
    /\ merr' = e
    /\ mpc' = "unwind"

\* main.py:74-76: the ExitStack is entered and stored, picomc_cli() is
\* called; click ends the process before the group's body runs when the
\* command line asks for --help or --version or is not understood.
EnterMain ==
    /\ mpc = "main"
    /\ Env' = FreshEnv
    /\ \/ Throw("SystemExit")
       \/ /\ mpc' = "configure"
          /\ UNCHANGED merr
    /\ UNCHANGED <<existing, dirs_left, estack, released>>
    /\ UNCHANGED installvars

\* main.py:45-47
Configure ==
    /\ mpc = "configure"
    /\ \E debug \in BOOLEAN :
           Env' = [Env EXCEPT !.debug = debug, !.app_root = "root"]
    /\ dirs_left' = Len(dirs)
    /\ mpc' = "dirs"
    /\ UNCHANGED <<existing, estack, released, merr>>
    /\ UNCHANGED installvars

\* main.py:28-34, one iteration: os.makedirs makes the directory and the
\* ones above it; FileExistsError is passed over, another error is not.
MakeDir ==
    /\ mpc = "dirs"
    /\ dirs_left > 0
    /\ dirs_left' = dirs_left - 1
    /\ LET d == dirs[Len(dirs) - dirs_left + 1]
       IN  IF d \in existing
           THEN UNCHANGED <<existing, mpc, merr>>
           ELSE \/ /\ existing' = existing \cup {d} \cup Ancestors(d)
                   /\ UNCHANGED <<mpc, merr>>
                \/ /\ Throw("PermissionError")
                   /\ UNCHANGED existing
    /\ UNCHANGED <<Env, estack, released>>
    /\ UNCHANGED installvars

\* main.py:50-52
WriteProfilesDummy ==
    /\ mpc = "dirs"
    /\ dirs_left = 0
    /\ \/ Throw("OSError")
       \/ /\ mpc' = "am"
          /\ UNCHANGED merr
    /\ UNCHANGED <<Env, existing, dirs_left, estack, released>>
    /\ UNCHANGED installvars

\* ExitStack.enter_context(cm): cm.__enter__() is called, and only when it
\* has returned is cm's release pushed on the stack.
enter_context(stack, cm) == Append(stack, cm)

\* main.py:54
EnterAccountManager ==
    /\ mpc = "am"
    /\ \/ /\ Throw("AccountError")      \* the constructor or __enter__ fails
          /\ UNCHANGED <<Env, estack>>
       \/ /\ estack' = enter_context(estack, "AccountManager")
          /\ Env' = [Env EXCEPT !.am = "AccountManager"]
          /\ mpc' = "gconf"
          /\ UNCHANGED merr
    /\ UNCHANGED <<existing, dirs_left, released>>
    /\ UNCHANGED installvars

\* main.py:55-63
EnterConfigLoader ==
    /\ mpc = "gconf"
    /\ \/ /\ Throw("ConfigError")       \* the constructor or __enter__ fails
          /\ UNCHANGED <<Env, estack>>
       \/ /\ estack' = enter_context(estack, "ConfigLoader")
          /\ Env' = [Env EXCEPT !.gconf = "ConfigLoader"]
          /\ mpc' = "vm"
          /\ UNCHANGED merr
    /\ UNCHANGED <<existing, dirs_left, released>>
    /\ UNCHANGED installvars

\* main.py:64
CreateVersionManager ==
    /\ mpc = "vm"
    /\ \/ /\ Throw("VersionError")
          /\ UNCHANGED Env
       \/ /\ Env' = [Env EXCEPT !.vm = "VersionManager"]
          /\ mpc' = "command"
          /\ UNCHANGED merr
    /\ UNCHANGED <<existing, dirs_left, estack, released>>
    /\ UNCHANGED installvars

\* main.py:67-70, 76: click runs the subcommand; it returns or raises.
RunCommand ==
    /\ mpc = "command"
    /\ \E e \in {"", "CommandError"} : Throw(e)
    /\ UNCHANGED <<Env, existing, dirs_left, estack, released>>
    /\ UNCHANGED installvars

\* The callback registered first is the one called next.
NextRelease_oldestFirst(stack) == 1

\* ExitStack.__exit__ calls the callbacks last in, first out.
NextRelease(stack) == Len(stack)

Remove(stack, i) == SubSeq(stack, 1, i - 1) \o SubSeq(stack, i + 1, Len(stack))

\* main.py:74, leaving the with block: one callback of the stack is
\* called.  A release that raises replaces the exception in flight and
\* the unwinding goes on.
Release ==
    /\ mpc = "unwind"
    /\ estack # <<>>
    /\ released' = Append(released, estack[NextRelease(estack)])
    /\ estack' = Remove(estack, NextRelease(estack))
    /\ \E e \in {merr, "ReleaseError"} : merr' = e
    /\ UNCHANGED <<mpc, Env, existing, dirs_left>>
    /\ UNCHANGED installvars

\* main.py:73-76: every callback was called, main() ends.
ExitMain ==
    /\ mpc = "unwind"
    /\ estack = <<>>
    /\ mpc' = "exited"
    /\ UNCHANGED <<Env, existing, dirs_left, estack, released, merr>>
    /\ UNCHANGED installvars

MainNext ==
    \/ EnterMain
    \/ Configure
    \/ MakeDir
    \/ WriteProfilesDummy
    \/ EnterAccountManager
    \/ EnterConfigLoader
    \/ CreateVersionManager
    \/ RunCommand
    \/ Release
    \/ ExitMain

MainSpec == MainInit /\ [][MainNext]_vars

-----------------------------------------------------------------------------
(* Quantities the properties speak of *)

RECURSIVE SumOver(_, _)
SumOver(f, S) ==
    IF S = {} THEN 0
    ELSE LET x == CHOOSE y \in S : TRUE
         IN  f[x] + SumOver(f, S \ {x})

BatchHits == Cardinality({i \in 1..Len(dq) : dq[i].phase = "batch"})
FallbackLookups == SumOver(lookups, DOMAIN lookups)
Attempts == BatchHits + FallbackLookups

ManifestRead == manifest # NoManifest
DistinctProjects ==
    {manifest.files[i].projectID : i \in 1..Len(manifest.files)}

\* The download stage was reached: metadata resolution is over.
ResolutionOver == pc \in {"download", "downloaded", "done"}

\* The fileID of the last manifest entry that names project p.
RequestedFile(p) ==
    LET at == {i \in 1..Len(manifest.files) : manifest.files[i].projectID = p}
        last == CHOOSE i \in at : \A j \in at : j <= i
    IN  manifest.files[last].fileID

Has(seq, x) == \E i \in 1..Len(seq) : seq[i] = x
LastStep == steps[Len(steps)]

OldInstances == {i \in registered : i.version = OLD_VERSION}

Terminal(p) == futmap[p] \in {"done", "failed"}
FallbackTaskOf(p) ==
    \E i \in 1..Len(dq) : dq[i].pid = p /\ dq[i].phase = "fallback"

-----------------------------------------------------------------------------
(* C1 *)

\* C1 as stated: once resolution is over, the attempts made (batch hits
\* plus fallback lookups) number exactly the entries of the manifest's
\* files list, repeated projectIDs included, and no lookup was repeated.
C1_AttemptsEqualEntries ==
    ResolutionOver =>
        /\ Attempts = Len(manifest.files)
        /\ \A p \in DOMAIN lookups : lookups[p] <= 1

\* C1 amended: once resolution is over, the attempts made number exactly
\* the distinct projectIDs of the manifest's files list, and no project was
\* looked up twice.
C1_AttemptsEqualDistinctProjects ==
    ResolutionOver =>
        /\ Attempts = Cardinality(DistinctProjects)
        /\ \A p \in DOMAIN lookups : lookups[p] <= 1

\* A finished run that resolved one project in the batch and one by lookup.
C1_Witness ==
    /\ pc = "done"
    /\ Len(manifest.files) = 2
    /\ BatchHits = 1
    /\ FallbackLookups = 1

-----------------------------------------------------------------------------
(* C2 *)

\* C2: every task in the download queue, from the batch phase or from the
\* fallback phase, was built of a file object whose id is the fileID the
\* manifest requests for the task's project.
C2_OnlyRequestedFile ==
    \A i \in 1..Len(dq) :
        /\ dq[i].pid \in DistinctProjects
        /\ dq[i].file_id = RequestedFile(dq[i].pid)

\* A queue holding a batch task and a fallback task.
C2_Witness ==
    /\ \E i \in 1..Len(dq) : dq[i].phase = "batch"
    /\ \E i \in 1..Len(dq) : dq[i].phase = "fallback"

-----------------------------------------------------------------------------
(* C3 *)

\* dq.download() has run on a queue that holds every descriptor resolved:
\* each dispatched lookup was sent once and has ended, each one that got
\* its file has its task in the queue, the batch tasks are still there,
\* and every task of the queue was run.
QueueRunWithAllResolved ==
    /\ pc = "downloaded"
    /\ \A q \in DOMAIN futmap :
          /\ lookups[q] = 1
          /\ Terminal(q)
          /\ futmap[q] = "done" <=> FallbackTaskOf(q)
    /\ BatchHits = modcount - Cardinality(DOMAIN futmap)
    /\ DOMAIN downloads = 1..Len(dq)

\* C3: whenever a fallback lookup has failed, the run still gets to the
\* point where the download queue was run with every resolved descriptor,
\* all the other dispatched lookups having run to their end.
C3_FallbackIsolation ==
    \A p \in ProjectIds :
        (pc = "fallback" /\ p \in DOMAIN futmap /\ futmap[p] = "failed")
            ~> QueueRunWithAllResolved

\* The queue was run after one lookup failed and another one succeeded.
C3_Witness ==
    /\ pc = "downloaded"
    /\ \E p \in DOMAIN futmap : futmap[p] = "failed"
    /\ \E q \in DOMAIN futmap : futmap[q] = "done" /\ FallbackTaskOf(q)

-----------------------------------------------------------------------------
(* C4 *)

\* The validation checks, read off the manifest itself.
ChecksPassed(m) ==
    /\ m.manifestType = "minecraftModpack"
    /\ m.manifestVersion = 1
    /\ Len(m.modLoaders) = 1
    /\ m.modLoaders[1][1] = "forge-"

FailedByValidation ==
    pc = "error" /\ LastStep \in {"locator", "fetch", "manifest"}

\* C4: an instance exists only if the archive was opened and its manifest
\* passes every validation check; a run that failed at or before manifest
\* validation has created no instance, started no dependency install and
\* written no file.
C4_CreatedOnlyAfterValidation ==
    /\ (inst # NoInst \/ registered # OldInstances) =>
          zip_entered /\ ManifestRead /\ ChecksPassed(manifest)
    /\ FailedByValidation =>
          /\ inst = NoInst
          /\ registered = OldInstances
          /\ ~Has(steps, "forge")
          /\ written = {}

\* The instance has just been created.
C4_Witness == pc = "config" /\ inst # NoInst /\ inst \in registered

-----------------------------------------------------------------------------
(* C5 *)

\* C5: once the pre-flight check has been made in a run whose instance
\* name was already registered, the run has ended in the instance-exists
\* error with forge.install never called, no instance created, nothing
\* extracted and the registered instances as they were.
C5_PreflightFailsFirst ==
    (Has(steps, "preflight") /\ \E i \in OldInstances : i.name = instance_name) =>
        /\ pc = "error"
        /\ err = "SystemExit"
        /\ ~Has(steps, "forge")
        /\ ~Has(steps, "create")
        /\ inst = NoInst
        /\ written = {}
        /\ registered = OldInstances

\* The pre-flight check has stopped a run on an existing derived name.
C5_Witness ==
    /\ err = "SystemExit"
    /\ path.exists = FALSE
    /\ instance_name = PACK_NAME
    /\ OldInstance(PACK_NAME) \in registered

-----------------------------------------------------------------------------
(* C6 *)

\* C6: when the locator is an existing path, the run gets past the opening
\* of the archive into install_from_zip, and makes no network request.
C6_LocalPathEntersZip ==
    (path.exists /\ pc # "start") => (zip_entered /\ net = {})

-----------------------------------------------------------------------------
(* C7 *)

\* C7: every path the overlay copy writes and every destination path in
\* the download queue lies inside the instance's directory.
C7_NothingOutsideInstance ==
    inst # NoInst =>
        /\ \A w \in written : Inside(w, inst_dir(inst))
        /\ \A i \in 1..Len(dq) : Inside(dq[i].dest, inst_dir(inst))

-----------------------------------------------------------------------------
(* C8 *)

\* The name's parts, "." and empty parts aside.
NameParts(e) == SelectSeq(e.filename, LAMBDA c : c \notin {".", ""})

UnderOverrides(e) ==
    LET n == NameParts(e)
        o == manifest.overrides
    IN  /\ Len(n) >= Len(o)
        /\ \A i \in 1..Len(o) : n[i] = o[i]

\* <instance>/minecraft/<path relative to overrides>
OverlayTarget(e) ==
    LET n == NameParts(e)
    IN  <<"instances", Spelled(inst.name), "minecraft">>
            \o [i \in 1..(Len(n) - Len(manifest.overrides)) |->
                   n[i + Len(manifest.overrides)]]

OverlayStep == pc = "overlay" /\ entries_left' = entries_left - 1

\* C8: a step of the overlay loop on a non-directory entry under the
\* overrides prefix writes <instance>/minecraft/<relative path> (or fails
\* on the write); on any other entry it writes nothing and raises nothing;
\* no other step writes.
C8_OverlayWritesExactly ==
    [][ IF OverlayStep
        THEN IF ~fileinfo'.dir /\ UnderOverrides(fileinfo')
             THEN \/ written' = written \cup {OverlayTarget(fileinfo')} /\ pc' = "overlay"
                  \/ written' = written /\ pc' = "error"
             ELSE written' = written /\ pc' = "overlay" /\ err' = ""
        ELSE written' = written ]_vars

\* A file was written and a directory entry was then passed over.
C8_Witness ==
    /\ pc = "overlay"
    /\ written # {}
    /\ fileinfo # NoFile
    /\ fileinfo.dir

-----------------------------------------------------------------------------
(* C9 *)

StepOrder ==
    <<"locator", "fetch", "manifest", "preflight", "forge", "create",
      "config", "overlay", "resolve", "download", "done">>

\* C9: the steps begun so far are the first steps of the fixed order, none
\* left out and none out of place; a run that reports done has made them
\* all.
C9_StepsInOrder ==
    /\ Len(steps) <= Len(StepOrder)
    /\ \A i \in 1..Len(steps) : steps[i] = StepOrder[i]
    /\ pc = "done" => steps = StepOrder

\* A run that reported done.
C9_Witness == pc = "done" /\ Len(steps) = 11

-----------------------------------------------------------------------------
(* C10 *)

IsolatedFailure ==
    \/ \E p \in DOMAIN futmap : futmap[p] = "failed"
    \/ \E i \in DOMAIN downloads : downloads[i] = "failed"

\* C10: once a fallback lookup or a download task has failed, the run
\* still reaches the 'done' report, the download queue having been run and
\* no error having ended the run.
C10_CompletedWithWarnings ==
    IsolatedFailure ~> (pc = "done" /\ err = "" /\ Has(steps, "download"))

\* A run that reported done after a lookup and a download had failed.
C10_Witness ==
    /\ pc = "done"
    /\ \E p \in DOMAIN futmap : futmap[p] = "failed"
    /\ \E i \in DOMAIN downloads : downloads[i] = "failed"

-----------------------------------------------------------------------------
(* C11 *)

\* C11: when forge.install signals that the version is already installed,
\* the signal ends nothing: the run stands before instance creation with no
\* error, and its next step creates the instance; when forge.install fails
\* in another way, the run has ended and no instance was created.
C11_AlreadyInstalledIsNoFailure ==
    /\ [](caught = "AlreadyInstalledError" => pc = "create" /\ err = "")
    /\ [](err # "AlreadyInstalledError")
    /\ [](err = "ForgeInstallError" =>
             /\ pc = "error"
             /\ inst = NoInst
             /\ registered = OldInstances
             /\ ~Has(steps, "create"))
    /\ [][caught = "AlreadyInstalledError" =>
             /\ inst' # NoInst
             /\ inst' \in registered'
             /\ Has(steps', "create")]_vars

\* forge.install has just signalled that the version was installed already.
C11_Witness ==
    /\ caught = "AlreadyInstalledError"
    /\ pc = "create"
    /\ LastStep = "forge"

-----------------------------------------------------------------------------
(* C12 *)

IsHttpsZip(t) == Len(t) > 0 /\ t[1] = "https://" /\ t[Len(t)] = ".zip"

\* https://www.curseforge.com/minecraft/modpacks/<slug>/download/<id>
IsDownloadPage(t) ==
    /\ Len(t) = 8
    /\ t[1] = "https://" /\ t[2] = CF /\ t[3] \in Slugs
    /\ t[4] = "/" /\ t[5] = "download" /\ t[6] = "/" /\ t[8] = ""

\* https://www.curseforge.com/minecraft/modpacks/<slug>/files/<id>/file
IsFilesPage(t) ==
    /\ Len(t) = 8
    /\ t[1] = "https://" /\ t[2] = CF /\ t[3] \in Slugs
    /\ t[4] = "/" /\ t[5] = "files" /\ t[6] = "/" /\ t[8] = "/file"

ResolutionRequests == {r \in net : r.kind = "geturl"}

\* C12: for a locator that is no existing path, once it is classified: a
\* download page URL .../download/123 and a files page URL
\* .../files/123/file both put file id 123, and nothing else, into the
\* resolution request; an https URL ending in .zip is the archive URL as
\* it stands and no resolution request was made; a locator of neither form
\* has ended the run with the unsupported-URL error and no request at all.
C12_LocatorClassification ==
    (~path.exists /\ pc # "start") =>
        /\ (IsDownloadPage(path.text) \/ IsFilesPage(path.text)) =>
               /\ path.text[7] = "123"
               /\ ResolutionRequests = {[kind |-> "geturl", id |-> "123"]}
        /\ IsHttpsZip(path.text) =>
               /\ ResolutionRequests = {}
               /\ zipurl = path.text
               /\ err # "ValueError"
        /\ (~IsHttpsZip(path.text) /\ ~regex_match(path.text)) =>
               /\ pc = "error"
               /\ err = "ValueError"
               /\ net = {}

\* The files page URL was resolved and the archive fetched from the result.
C12_Witness ==
    /\ ~path.exists
    /\ IsFilesPage(path.text)
    /\ [kind |-> "geturl", id |-> "123"] \in net
    /\ [kind |-> "getzip", url |-> ZIP_URL] \in net

-----------------------------------------------------------------------------
(* C13 *)

ClaimedManifest ==
    /\ manifest # NoManifest
    /\ manifest.modLoaders = << <<"forge-", "36.2.0">> >>
    /\ manifest.version_mc = "1.16.5"

\* The step at curse.py:55-65 of a call that was given no instance name.
NamesUnnamedCall ==
    /\ pc = "validate" /\ pc' = "preflight"
    /\ instance_name = NoName
    /\ ClaimedManifest

\* The step at curse.py:80-83.
CreatesInstance == pc = "create" /\ pc' = "config"

\* C13 as stated: called without an instance name on a manifest naming
\* forge-36.2.0 and 1.16.5, the name settled on is "1.16.5-forge-36.2.0",
\* and the instance is created under the name settled on.
C13_NamedAfterLoader ==
    [][/\ NamesUnnamedCall =>
              instance_name' = <<"1.16.5", "-forge-", "36.2.0">>
       /\ CreatesInstance =>
              inst'.name = instance_name]_vars

\* C13: called without an instance name on a manifest naming forge-36.2.0
\* and 1.16.5, the name settled on is the sanitized pack name, "-", and the
\* sanitized pack version; the instance is created under the name settled
\* on, and "1.16.5-forge-36.2.0" is the version it is created with.
C13_NamedAfterPack ==
    [][/\ NamesUnnamedCall =>
              instance_name' = <<"My", "_", "Pack", "-", "1.0">>
       /\ CreatesInstance =>
              /\ inst'.name = instance_name
              /\ ClaimedManifest =>
                     inst'.version = <<"1.16.5", "-forge-", "36.2.0">>]_vars

\* An instance created under the name derived from the pack.
C13_Witness ==
    /\ inst # NoInst
    /\ ClaimedManifest
    /\ manifest.name = <<"My", "/", "Pack">>
    /\ inst.name = <<"My", "_", "Pack", "-", "1.0">>
    /\ inst.version = <<"1.16.5", "-forge-", "36.2.0">>
    /\ inst \in registered

-----------------------------------------------------------------------------
(* C14 *)

BatchTasksOf(p) ==
    {i \in 1..Len(dq) : dq[i].pid = p /\ dq[i].phase = "batch"}

BatchPhaseOver == pc \in {"fallback", "download", "downloaded", "done"}

\* C14: whatever the batch response holds, latestFiles lists that repeat
\* the requested file id included, no project ever has more than one
\* download task enqueued by the batch phase; and when the batch phase is
\* over the distinct projects are split in two: those with a batch task
\* get no fallback lookup, the others have no batch task and get exactly
\* one fallback lookup.
C14_BatchPartition ==
    /\ \A p \in ProjectIds : Cardinality(BatchTasksOf(p)) <= 1
    /\ BatchPhaseOver =>
           \A p \in DistinctProjects :
               IF BatchTasksOf(p) # {}
               THEN p \notin DOMAIN futmap
               ELSE /\ p \in DOMAIN futmap
                    /\ lookups[p] <= 1
                    /\ ResolutionOver => lookups[p] = 1

-----------------------------------------------------------------------------
(* C15 *)

QueueRunBegun == pc \in {"download", "downloaded", "done"}

\* C15: when the main thread stands at dq.download, and ever after, every
\* fallback lookup dispatched is terminal and has been handed to the main
\* thread (its descriptor enqueued or its failure logged); from there on
\* the queue receives no descriptor; and 'done' is reported only when
\* dq.download has run and returned its outcomes.
C15_CompletionBarrier ==
    /\ [](QueueRunBegun =>
             \A p \in DOMAIN futmap :
                 /\ Terminal(p)
                 /\ p \in observed
                 /\ futmap[p] = "done" => FallbackTaskOf(p))
    /\ [][QueueRunBegun => dq' = dq]_vars
    /\ [](Has(steps, "done") =>
             /\ Has(steps, "download")
             /\ DOMAIN downloads = 1..Len(dq))
    /\ [][Has(steps', "done") /\ ~Has(steps, "done") =>
             pc = "downloaded" /\ Has(steps, "download")]_vars

\* dq.download has returned after one lookup enqueued its descriptor and
\* another failed.
C15_Witness ==
    /\ pc = "downloaded"
    /\ \E p \in DOMAIN futmap : futmap[p] = "done"
    /\ \E p \in DOMAIN futmap : futmap[p] = "failed"
    /\ Len(dq) >= 1

-----------------------------------------------------------------------------
(* C16 *)

\* What is left to do in the phase: two steps for a pending lookup, one
\* for a lookup in flight.
WorkLeft == 2 * Cardinality(Pending) + Cardinality(InFlight)

\* C16: in the fallback phase never more than max_workers lookups are in
\* flight, however many projects are unresolved; no project has more than
\* one lookup, so never two in flight, and there are as many requests as
\* lookups taken up; and every submitted lookup is executed to its end:
\* as long as one is not terminal a worker can take a step, and every
\* step of a worker leaves less to do.
C16_BoundedPool ==
    /\ [](Cardinality(InFlight) <= max_workers)
    /\ [](\A p \in DOMAIN futmap :
             /\ lookups[p] <= 1
             /\ futmap[p] = "pending" <=> lookups[p] = 0)
    /\ [](Cardinality({r \in net : r.kind = "getinfo"}) =
             Cardinality(DOMAIN futmap \ Pending))
    /\ []((\A p \in DOMAIN futmap : Terminal(p)) \/ ENABLED PoolNext)
    /\ [][WorkLeft' < WorkLeft]_vars

\* The pool is full and a submitted lookup is waiting for a worker.
C16_Witness ==
    /\ Cardinality(InFlight) = max_workers
    /\ Pending # {}
    /\ Cardinality(DOMAIN futmap) > max_workers

-----------------------------------------------------------------------------
(* C17 *)

\* The file a path names once its ".." parts are followed.
Target(p) == Resolve(<<>>, p)

\* C17: within one installation no two download tasks in the queue that
\* were enqueued for different projects, from whichever phase, have the
\* same destination, and no download task's destination is a file the
\* overlay copy has written.
C17_DistinctDestinations ==
    /\ \A i, j \in 1..Len(dq) :
           dq[i].pid # dq[j].pid => Target(dq[i].dest) # Target(dq[j].dest)
    /\ \A i \in 1..Len(dq) :
           \A w \in written : Target(dq[i].dest) # Target(w)

-----------------------------------------------------------------------------
(* C18 *)

\* The steps whose failure the claim is about.
FatalSteps == {"fetch", "manifest", "preflight", "forge", "overlay"}

FailedFatally == err # "" /\ steps # <<>> /\ LastStep \in FatalSteps

\* C18: once the archive fetch, the manifest validation, the pre-flight
\* check, the dependency install or an overlay write has failed, the run
\* has ended: the download queue was not and will not be run, 'done' is not
\* reported, no step is taken after the failure and none was begun twice;
\* and the failing step leaves what was done before as it is: the loaders
\* installed, the instances registered, the instance created and the
\* files written.
C18_FatalFailureAborts ==
    /\ [](FailedFatally =>
             /\ pc = "error"
             /\ ~Has(steps, "download")
             /\ ~Has(steps, "done")
             /\ downloads = <<>>)
    /\ [](\A i, j \in 1..Len(steps) : i # j => steps[i] # steps[j])
    /\ [][~FailedFatally]_vars
    /\ [][FailedFatally' =>
             /\ forge_installed \subseteq forge_installed'
             /\ registered \subseteq registered'
             /\ inst' = inst
             /\ written \subseteq written']_vars

\* An overlay write failed after the loader was installed, the instance
\* created and a file written; all three are still there.
C18_Witness ==
    /\ pc = "error"
    /\ err = "OSError"
    /\ LastStep = "overlay"
    /\ forge_ver \in forge_installed
    /\ inst # NoInst /\ inst \in registered
    /\ written # {}

-----------------------------------------------------------------------------
(* C19 *)

RunOver == pc \in {"error", "done"}

\* C19: a run on a remote locator creates at most one temporary file;
\* install_from_zip is entered only on a temporary file that holds the
\* whole body of the archive response; the file is open only while
\* install_from_zip runs; and when the run is over, by the 'done' report
\* or by whatever failure, a temporary file that was created is closed.
C19_TemporaryFileScoped ==
    ~path.exists =>
        /\ tempcount <= 1
        /\ tempcount = 0 <=> tempfile = "none"
        /\ zip_entered =>
               /\ tempcount = 1
               /\ [kind |-> "getzip", url |-> zipurl] \in net
               /\ err # "ChunkedEncodingError"
        /\ tempfile = "open" => zip_entered /\ ~RunOver
        /\ RunOver => tempfile \in {"none", "closed"}

\* The manifest of the fetched archive was rejected and the temporary file
\* is closed.
C19_Witness ==
    /\ ~path.exists
    /\ pc = "error"
    /\ err = "AssertionError"
    /\ zip_entered
    /\ tempcount = 1
    /\ tempfile = "closed"

-----------------------------------------------------------------------------
(* C20 *)

RECURSIVE Reverse(_)
Reverse(seq) ==
    IF seq = <<>> THEN <<>> ELSE Reverse(Tail(seq)) \o <<Head(seq)>>

\* The resources picomc_cli has entered, in the order of main.py:54-63.
Entered ==
    IF Env = NoEnv THEN <<>>
    ELSE (IF Env.am # None THEN <<"AccountManager">> ELSE <<>>)
         \o (IF Env.gconf # None THEN <<"ConfigLoader">> ELSE <<>>)

\* C20: the resources entered are AccountManager and then ConfigLoader, in
\* that order and each at most once; at every moment each resource entered
\* is either still held or was released, once, the later entered the
\* earlier released; nothing is released before main() is being left; and
\* when main() has ended, normally or by an error, everything entered has
\* been released and nothing that was not entered.
C20_ReleasedOnceInReverse ==
    /\ [](Entered \in {<<>>, <<"AccountManager">>,
                       <<"AccountManager", "ConfigLoader">>})
    /\ [](Entered = estack \o Reverse(released))
    /\ [](released # <<>> => mpc \in {"unwind", "exited"})
    /\ [](mpc = "exited" => estack = <<>> /\ released = Reverse(Entered))
    /\ [](mpc = "unwind" => ENABLED MainNext)
    /\ [][mpc = "exited" => mpc' = "exited"]_vars

\* main() has ended with the error of a subcommand, both resources
\* released, the ConfigLoader first.
C20_Witness ==
    /\ mpc = "exited"
    /\ merr = "CommandError"
    /\ released = <<"ConfigLoader", "AccountManager">>

====
